---- MODULE Spec2Model ----
(***************************************************************************)
(* Model of src/cpp/inheritance.cpp: the LoggerInterface with its two      *)
(* implementations InMemoryLogger and LocalLogger, the file system the     *)
(* LocalLogger works on, and the program main.                             *)
(*                                                                         *)
(* A string is a sequence of characters; a character is a one-character    *)
(* TLA+ string.  A file is a sequence of characters.  Text written to      *)
(* cerr is kept as the sequence of the pieces written.                     *)
(*                                                                         *)
(* Two specifications share the definitions of the classes:                *)
(*   Spec      a client that constructs an InMemoryLogger and LocalLoggers *)
(*             on two paths under /tmp and calls Log and Messages on them  *)
(*             in any order;                                               *)
(*   SpecMain  the program main, for any argv and any file system.         *)
(***************************************************************************)
EXTENDS Integers, Sequences, FiniteSets, TLC

VARIABLES
    fs,           \* the file system: path -> [kind, data]
    argv,         \* the program's argument vector, argv[0] first
    loggers,      \* vector<unique_ptr<LoggerInterface>>: the live objects
    pc,           \* position of the running program
    mi,           \* main: index into testMessages of the outer loop (line 103)
    li,           \* main: index into loggers of the inner/verify loop (104, 109)
    exitStatus,   \* <<>> while running, <<n>> once the process has ended
    cerr,         \* what was written to the error stream
    closeCount,   \* path -> number of times a write handle on it was closed
    appended,     \* history: per logger, the arguments of its Log calls
    observed,     \* per logger, <<r>> for the result r of its last Messages
                  \* call since its last Log, else <<>>
    prevObserved, \* per logger, the value observed had before that call
    truncated,    \* history: the paths whose file held data when a LocalLogger
                  \* was constructed on it
    lastOp        \* history: the operation executed by the last step

vars == <<fs, argv, loggers, pc, mi, li, exitStatus, cerr, closeCount,
          appended, observed, prevObserved, truncated, lastOp>>

----------------------------------------------------------------------------
(* Bounds and input sets *)

\* The client of Spec makes at most MaxAppends calls of Log in total.
MaxAppends == 2

NL == "\n"

\* Messages the client of Spec logs: with and without the line terminator.
Msgs == { <<>>, <<"a">>, <<"b">>, <<NL>>, <<"a", NL>>, <<"a", NL, "b">> }

\* Contents a regular file may have before the program starts.
OldData == { <<>>, <<"x", NL>>, <<"x", NL, "y">> }

default_filename == "/tmp/outfile_cpp.txt"
OtherPath == "/tmp/other.txt"
NullDevice == "/dev/null"
NoDirPath == "/nonexistent_dir/x.txt"

Paths == {default_filename, OtherPath, NullDevice, NoDirPath}

\* What a path can name when the program starts:
\*   absent      nothing yet, in a directory where a file can be created
\*   regular     a regular file that can be written and read
\*   null        a device that discards what is written and reads as empty
\*   unopenable  nothing that can be opened for writing
FileStates ==
    {[kind |-> "absent", data |-> <<>>], [kind |-> "unopenable", data |-> <<>>]}
    \cup {[kind |-> "regular", data |-> d] : d \in OldData}

FileSystems ==
    {f \in [Paths -> FileStates \cup {[kind |-> "null", data |-> <<>>]}] :
        /\ f[NullDevice].kind = "null"
        /\ f[NoDirPath].kind = "unopenable"
        /\ f[default_filename].kind # "null"
        /\ f[OtherPath].kind # "null"}

----------------------------------------------------------------------------
(* Strings and streams *)

RECURSIVE Concat(_)
\* The concatenation of a sequence of sequences.
Concat(ss) == IF ss = <<>> THEN <<>> ELSE Head(ss) \o Concat(Tail(ss))

\* Position of the first NL in data, 0 if there is none.
FirstNL(data) ==
    IF \E k \in 1..Len(data) : data[k] = NL
    THEN CHOOSE k \in 1..Len(data) :
             data[k] = NL /\ \A h \in 1..(k - 1) : data[h] # NL
    ELSE 0

\* (variant: a reader that takes everything up to the end of the data as one line)
ReadLinesWhole(data) == IF data = <<>> THEN <<>> ELSE <<data>>

RECURSIVE ReadLines(_)
\* for (string line; getline(infile, line); ) messages.push_back(line);
\* getline extracts up to the next '\n', which it drops; at the end of the
\* data it succeeds if it extracted at least one character.
ReadLines(data) ==
    IF data = <<>> THEN <<>>
    ELSE LET k == FirstNL(data) IN
         IF k = 0 THEN <<data>>
         ELSE <<SubSeq(data, 1, k - 1)>>
                  \o ReadLines(SubSeq(data, k + 1, Len(data)))

\* A stream's write of bytes at offset pos of a file holding data.
WriteAt(data, pos, bytes) ==
    SubSeq(data, 1, pos) \o bytes
        \o SubSeq(data, pos + Len(bytes) + 1, Len(data))

\* ostream& operator<<(ostream&, vector<string> const&)
EmitVector(vs) == Concat([k \in 1..Len(vs) |-> vs[k] \o <<NL>>])

----------------------------------------------------------------------------
(* class InMemoryLogger *)

\* InMemoryLogger() = default: the vector member starts empty.
InMemoryLoggerCtor == [type |-> "InMemoryLogger", messages |-> <<>>]

\* void InMemoryLogger::Log(string const& mesg): messages.push_back(mesg)
InMemoryLog(o, mesg) == [o EXCEPT !.messages = Append(@, mesg)]

\* (variant: hand the member itself out, leaving it empty)
InMemoryMessagesMoved(o) ==
    [ret |-> o.messages, obj |-> [o EXCEPT !.messages = <<>>]]

\* vector<string> InMemoryLogger::Messages() const: a copy of the member.
InMemoryMessages(o) == [ret |-> o.messages, obj |-> o]

----------------------------------------------------------------------------
(* class LocalLogger *)

\* The object a LocalLogger constructor builds on file.
LocalObj(file, open) ==
    [type |-> "LocalLogger", filename |-> file, is_open |-> open,
     pos |-> 0, buf |-> <<>>]

\* outfile.open(filename, fstream::out): fails on what cannot be opened for
\* writing; creates the file or truncates it to length 0; a device keeps
\* being what it is.
OpenOut(file, fsys) ==
    CASE fsys[file].kind = "unopenable" -> [ok |-> FALSE, fs |-> fsys]
      [] fsys[file].kind = "null" -> [ok |-> TRUE, fs |-> fsys]
      [] OTHER ->
           [ok |-> TRUE,
            fs |-> [fsys EXCEPT ![file] = [kind |-> "regular", data |-> <<>>]]]

\* (variant: the failed open is not fatal, the object is handed out)
LocalLoggerCtorNoExit(file, fsys) ==
    LET o == OpenOut(file, fsys) IN
    [exited |-> FALSE, cerr |-> <<>>, obj |-> LocalObj(file, o.ok), fs |-> o.fs]

\* (variant: the open keeps what the file holds)
LocalLoggerCtorNoTrunc(file, fsys) ==
    IF fsys[file].kind = "unopenable"
    THEN [exited |-> TRUE, cerr |-> <<"Failed to open file: ", file, NL>>,
          obj |-> LocalObj(file, FALSE), fs |-> fsys]
    ELSE [exited |-> FALSE, cerr |-> <<>>, obj |-> LocalObj(file, TRUE),
          fs |-> IF fsys[file].kind = "absent"
                 THEN [fsys EXCEPT ![file] = [kind |-> "regular", data |-> <<>>]]
                 ELSE fsys]

\* LocalLogger::LocalLogger(char const * const file): opens the file; when
\* the stream is not open it writes the diagnostic and calls exit(1).
LocalLoggerCtor(file, fsys) ==
    LET o == OpenOut(file, fsys) IN
    IF ~o.ok
    THEN [exited |-> TRUE, cerr |-> <<"Failed to open file: ", file, NL>>,
          obj |-> LocalObj(file, FALSE), fs |-> o.fs]
    ELSE [exited |-> FALSE, cerr |-> <<>>, obj |-> LocalObj(file, TRUE),
          fs |-> o.fs]

\* The stream's flush (and the flush a close does): the buffered characters
\* go to the file at the stream's position; a device discards them.
FlushTo(o, file, fsys) ==
    IF ~o.is_open THEN [obj |-> o, fs |-> fsys]
    ELSE [obj |-> [o EXCEPT !.pos = @ + Len(o.buf), !.buf = <<>>],
          fs |-> IF fsys[file].kind = "regular"
                 THEN [fsys EXCEPT ![file].data = WriteAt(@, o.pos, o.buf)]
                 ELSE fsys]

\* (variant: the file written is the default one, whatever the object's)
LocalLogFixedFile(o, mesg, fsys) ==
    IF ~o.is_open THEN [obj |-> o, fs |-> fsys]
    ELSE FlushTo([o EXCEPT !.buf = @ \o mesg \o <<NL>>], default_filename, fsys)

\* (variant: no flush, the characters stay in the stream's buffer)
LocalLogNoFlush(o, mesg, fsys) ==
    IF ~o.is_open THEN [obj |-> o, fs |-> fsys]
    ELSE [obj |-> [o EXCEPT !.buf = @ \o mesg \o <<NL>>], fs |-> fsys]

\* void LocalLogger::Log(string const& mesg): outfile << mesg << '\n', then
\* outfile.flush().  A stream that is not open takes nothing.
LocalLog(o, mesg, fsys) ==
    IF ~o.is_open THEN [obj |-> o, fs |-> fsys]
    ELSE FlushTo([o EXCEPT !.buf = @ \o mesg \o <<NL>>], o.filename, fsys)

\* (variant: the lines are read through the object's own stream, which is
\* left rewound)
LocalMessagesShared(o, fsys) ==
    [ret |-> IF fsys[o.filename].kind \in {"regular", "null"}
             THEN ReadLines(fsys[o.filename].data) ELSE <<>>,
     obj |-> [o EXCEPT !.pos = 0], fs |-> fsys]

\* vector<string> LocalLogger::Messages() const: a new ifstream on filename,
\* read line by line to the end; a stream that did not open yields no line.
LocalMessages(o, fsys) ==
    [ret |-> IF fsys[o.filename].kind \in {"regular", "null"}
             THEN ReadLines(fsys[o.filename].data) ELSE <<>>,
     obj |-> o, fs |-> fsys]

\* LocalLogger::~LocalLogger(): outfile.close(), which flushes and closes an
\* open stream and counts as one close; the member's own destructor then
\* finds the stream closed.
LocalLoggerDtor(o, fsys, closes) ==
    LET f == FlushTo(o, o.filename, fsys) IN
    [obj |-> [f.obj EXCEPT !.is_open = FALSE], fs |-> f.fs,
     closes |-> IF o.is_open
                THEN [closes EXCEPT ![o.filename] = @ + 1] ELSE closes]

----------------------------------------------------------------------------
(* LoggerInterface: the virtual calls *)

\* logger->Log(mesg)
Log(o, mesg, fsys) ==
    IF o.type = "InMemoryLogger"
    THEN [obj |-> InMemoryLog(o, mesg), fs |-> fsys]
    ELSE LocalLog(o, mesg, fsys)

\* logger->Messages()
Messages(o, fsys) ==
    IF o.type = "InMemoryLogger"
    THEN LET r == InMemoryMessages(o) IN
         [ret |-> r.ret, obj |-> r.obj, fs |-> fsys]
    ELSE LocalMessages(o, fsys)

\* Destruction of a logger through its unique_ptr (virtual destructor).
Destroy(o, fsys, closes) ==
    IF o.type = "InMemoryLogger"
    THEN [fs |-> fsys, closes |-> closes]
    ELSE LET d == LocalLoggerDtor(o, fsys, closes) IN
         [fs |-> d.fs, closes |-> d.closes]

----------------------------------------------------------------------------
(* Calls, as the steps of a program that holds the loggers *)

NoOp == [op |-> "start", k |-> 0]

\* loggers.emplace_back(make_unique<InMemoryLogger>()), then go to next.
NewInMemory(next) ==
    /\ loggers' = Append(loggers, InMemoryLoggerCtor)
    /\ appended' = Append(appended, <<>>)
    /\ observed' = Append(observed, <<>>)
    /\ prevObserved' = Append(prevObserved, <<>>)
    /\ lastOp' = [op |-> "InMemoryLogger", k |-> Len(loggers) + 1]
    /\ pc' = next
    /\ UNCHANGED <<fs, exitStatus, cerr, truncated>>

\* loggers.emplace_back(make_unique<LocalLogger>(file)), then go to next;
\* exit(1) inside the constructor ends the process with nothing destroyed.
NewLocal(file, next) ==
    LET c == LocalLoggerCtor(file, fs) IN
    /\ fs' = c.fs
    /\ cerr' = cerr \o c.cerr
    /\ truncated' = IF ~c.exited /\ fs[file].data # <<>>
                    THEN truncated \cup {file} ELSE truncated
    /\ lastOp' = [op |-> "LocalLogger", k |-> Len(loggers) + 1]
    /\ IF c.exited
       THEN /\ exitStatus' = <<1>>
            /\ pc' = "exited"
            /\ UNCHANGED <<loggers, appended, observed, prevObserved>>
       ELSE /\ loggers' = Append(loggers, c.obj)
            /\ appended' = Append(appended, <<>>)
            /\ observed' = Append(observed, <<>>)
            /\ prevObserved' = Append(prevObserved, <<>>)
            /\ pc' = next
            /\ UNCHANGED exitStatus

\* loggers[k]->Log(mesg)
CallLog(k, mesg) ==
    LET r == Log(loggers[k], mesg, fs) IN
    /\ loggers' = [loggers EXCEPT ![k] = r.obj]
    /\ fs' = r.fs
    /\ appended' = [appended EXCEPT ![k] = Append(@, mesg)]
    /\ observed' = [observed EXCEPT ![k] = <<>>]
    /\ prevObserved' = [prevObserved EXCEPT ![k] = <<>>]
    /\ lastOp' = [op |-> "Log", k |-> k]
    /\ UNCHANGED truncated

\* loggers[k]->Messages()
CallMessages(k) ==
    LET r == Messages(loggers[k], fs) IN
    /\ loggers' = [loggers EXCEPT ![k] = r.obj]
    /\ fs' = r.fs
    /\ observed' = [observed EXCEPT ![k] = <<r.ret>>]
    /\ prevObserved' = [prevObserved EXCEPT ![k] = observed[k]]
    /\ lastOp' = [op |-> "Messages", k |-> k]
    /\ UNCHANGED <<appended, truncated>>

----------------------------------------------------------------------------
(* Spec: a client of the classes *)

\* The files the client's LocalLoggers are constructed on, in this order,
\* after its InMemoryLogger: one logger per file.
ClientFiles == <<default_filename, OtherPath>>

TotalAppended == Len(Concat(appended))

Init ==
    /\ fs \in FileSystems
    /\ argv = <<"prog">>
    /\ loggers = <<>>
    /\ pc = "client"
    /\ mi = 0
    /\ li = 0
    /\ exitStatus = <<>>
    /\ cerr = <<>>
    /\ closeCount = [p \in Paths |-> 0]
    /\ appended = <<>>
    /\ observed = <<>>
    /\ prevObserved = <<>>
    /\ truncated = {}
    /\ lastOp = NoOp

ClientNewInMemory ==
    /\ pc = "client"
    /\ loggers = <<>>
    /\ NewInMemory("client")
    /\ UNCHANGED <<argv, mi, li, closeCount>>

ClientNewLocal ==
    /\ pc = "client"
    /\ Len(loggers) \in 1..Len(ClientFiles)
    /\ NewLocal(ClientFiles[Len(loggers)], "client")
    /\ UNCHANGED <<argv, mi, li, closeCount>>

ClientLog ==
    /\ pc = "client"
    /\ TotalAppended < MaxAppends
    /\ \E k \in DOMAIN loggers : \E mesg \in Msgs : CallLog(k, mesg)
    /\ UNCHANGED <<argv, pc, mi, li, exitStatus, cerr, closeCount>>

ClientMessages ==
    /\ pc = "client"
    /\ \E k \in DOMAIN loggers : CallMessages(k)
    /\ UNCHANGED <<argv, pc, mi, li, exitStatus, cerr, closeCount>>

Next == ClientNewInMemory \/ ClientNewLocal \/ ClientLog \/ ClientMessages

Spec == Init /\ [][Next]_vars

----------------------------------------------------------------------------
(* SpecMain: int main(int argc, char * argv[]) *)

\* vector<string> const testMessages
testMessages ==
    << <<"H", "e", "l", "l", "o", ",", " ", "W", "o", "r", "l", "d", "!">>,
       <<"a", "b", "r", "a", "c", "a", "d", "a", "b", "r", "a">>,
       <<"S", "a", "y", "o", "n", "a", "r", "a", "!">> >>

\* filename = (argc > 1) ? argv[1] : default_filename.  argv is held as a
\* TLA+ sequence, so argc is Len(argv) and C's argv[1] is argv[2].
Filename(args) == IF Len(args) > 1 THEN args[2] ELSE default_filename

\* (variant: the loggers are the outer loop, the messages the inner one)
LogLoopNextSwapped(m, l, n) ==
    IF m < Len(testMessages)
    THEN [mi |-> m + 1, li |-> l, done |-> FALSE]
    ELSE [mi |-> 1, li |-> l + 1, done |-> l + 1 > n]

\* for (mesg : testMessages) for (logger : loggers): the indices after the
\* call for message m on logger l of n, and whether both loops are over.
LogLoopNext(m, l, n) ==
    IF l < n
    THEN [mi |-> m, li |-> l + 1, done |-> FALSE]
    ELSE [mi |-> m + 1, li |-> 1, done |-> m + 1 > Len(testMessages)]

\* (variant: the comparison the wrong way round)
MismatchInverted(observedMessages, expected) == observedMessages = expected

\* if (observedMessages != testMessages)
Mismatch(observedMessages, expected) == observedMessages # expected

\* cerr << "expected: " << testMessages << "; but observed: "
\*      << observedMessages << '\n'
MismatchReport(expected, observedMessages) ==
    <<"expected: ">> \o EmitVector(expected) \o <<"; but observed: ">>
        \o EmitVector(observedMessages) \o <<NL>>

RECURSIVE DestroyAll(_, _, _)
\* The destruction of the vector at the end of main: every logger it owns
\* is destroyed.
DestroyAll(objs, fsys, closes) ==
    IF objs = <<>> THEN [fs |-> fsys, closes |-> closes]
    ELSE LET d == Destroy(Head(objs), fsys, closes) IN
         DestroyAll(Tail(objs), d.fs, d.closes)

InitMain ==
    /\ fs \in FileSystems
    /\ argv \in {<<"prog">>} \cup {<<"prog", p>> : p \in Paths}
    /\ loggers = <<>>
    /\ pc = "main95"
    /\ mi = 0
    /\ li = 0
    /\ exitStatus = <<>>
    /\ cerr = <<>>
    /\ closeCount = [p \in Paths |-> 0]
    /\ appended = <<>>
    /\ observed = <<>>
    /\ prevObserved = <<>>
    /\ truncated = {}
    /\ lastOp = NoOp

\* line 95
MainNewInMemory ==
    /\ pc = "main95"
    /\ NewInMemory("main96")
    /\ UNCHANGED <<argv, mi, li, closeCount>>

\* line 96
MainNewLocal ==
    /\ pc = "main96"
    /\ NewLocal(Filename(argv), "main103")
    /\ mi' = 1
    /\ li' = 1
    /\ UNCHANGED <<argv, closeCount>>

\* lines 103-107, one call of Log per step
MainLog ==
    /\ pc = "main103"
    /\ CallLog(li, testMessages[mi])
    /\ LET n == LogLoopNext(mi, li, Len(loggers)) IN
       /\ mi' = n.mi
       /\ li' = n.li
       /\ pc' = IF n.done THEN "main109" ELSE "main103"
    /\ UNCHANGED <<argv, exitStatus, cerr, closeCount>>

\* lines 109-116, one logger per step; exit(1) ends the process with
\* nothing destroyed
MainVerify ==
    /\ pc = "main109"
    /\ CallMessages(li)
    /\ LET observedMessages == Messages(loggers[li], fs).ret IN
       IF Mismatch(observedMessages, testMessages)
       THEN /\ cerr' = cerr \o MismatchReport(testMessages, observedMessages)
            /\ exitStatus' = <<1>>
            /\ pc' = "exited"
            /\ UNCHANGED li
       ELSE /\ li' = li + 1
            /\ pc' = IF li < Len(loggers) THEN "main109" ELSE "main117"
            /\ UNCHANGED <<cerr, exitStatus>>
    /\ UNCHANGED <<argv, mi, closeCount>>

\* line 117: main returns 0 and its locals are destroyed
MainReturn ==
    /\ pc = "main117"
    /\ LET d == DestroyAll(loggers, fs, closeCount) IN
       /\ fs' = d.fs
       /\ closeCount' = d.closes
    /\ loggers' = <<>>
    /\ exitStatus' = <<0>>
    /\ pc' = "done"
    /\ lastOp' = [op |-> "return", k |-> 0]
    /\ UNCHANGED <<argv, mi, li, cerr, appended, observed, prevObserved,
                   truncated>>

NextMain ==
    MainNewInMemory \/ MainNewLocal \/ MainLog \/ MainVerify \/ MainReturn

SpecMain == InitMain /\ [][NextMain]_vars

----------------------------------------------------------------------------
(* Properties *)

IsLocal(k) == loggers[k].type = "LocalLogger"

IsMemory(k) == loggers[k].type = "InMemoryLogger"

HasNL(mesg) == \E c \in 1..Len(mesg) : mesg[c] = NL

NoNLIn(ms) == \A m \in 1..Len(ms) : ~HasNL(ms[m])

IsPrefix(s, t) == Len(s) <= Len(t) /\ s = SubSeq(t, 1, Len(s))

\* What Messages would return on logger k in this state.
ReadOf(k) == Messages(loggers[k], fs).ret

\* The last step was a call of Messages on logger k.
JustRead(k) == lastOp.op = "Messages" /\ lastOp.k = k

\* main: both loggers were constructed (the open succeeded).
Opened == Len(appended) = 2

\* main: the process has ended.
Ended == pc \in {"done", "exited"}

\* C1 as stated: for every logger and messages that are any strings, a
\* call of Messages returns exactly the messages logged so far, in order.
C1_RoundTripAnyText ==
    \A k \in DOMAIN loggers : JustRead(k) => observed[k] = <<appended[k]>>

\* C1 as amended: a call of Messages returns exactly the messages logged so
\* far, in order, for an InMemoryLogger with any strings, and for a
\* LocalLogger on a regular file when no message logged holds the line
\* terminator.
C1_RoundTrip ==
    \A k \in DOMAIN loggers :
        (JustRead(k) /\ (IsLocal(k) => NoNLIn(appended[k])))
            => observed[k] = <<appended[k]>>

\* C1's case: a LocalLogger and an InMemoryLogger, one just read after two
\* different messages were logged to it, the other holding a message too.
C1_Witness ==
    \E k \in DOMAIN loggers : \E h \in DOMAIN loggers :
        /\ IsLocal(k) /\ IsMemory(h)
        /\ JustRead(k)
        /\ Len(appended[k]) >= 2
        /\ appended[k][1] # appended[k][2]
        /\ NoNLIn(appended[k])
        /\ observed[k] = <<appended[k]>>

\* C2: a LocalLogger whose open failed is never handed out: the process ends
\* with status 1 and the diagnostic naming the path as its whole error
\* output, the constructor has not returned (no logger was added), nothing
\* runs afterwards, and so every LocalLogger that exists, and every one Log
\* or Messages is called on, has its stream open.
C2_FailFast ==
    /\ \A k \in DOMAIN loggers : IsLocal(k) => loggers[k].is_open
    /\ (lastOp.op = "LocalLogger"
            /\ fs[ClientFiles[lastOp.k - 1]].kind = "unopenable")
        => /\ pc = "exited"
           /\ exitStatus = <<1>>
           /\ cerr = <<"Failed to open file: ", ClientFiles[lastOp.k - 1], NL>>
           /\ Len(loggers) = lastOp.k - 1
    /\ pc = "exited" => lastOp.op = "LocalLogger"

\* C2's case: the second LocalLogger's open failed after the first one was
\* constructed and used.
C2_Witness ==
    /\ pc = "exited"
    /\ lastOp.k = 3
    /\ Len(loggers) = 2
    /\ appended[2] # <<>>

\* C3: once main has ended after a successful open, the status is 0 with
\* nothing written to cerr exactly when every logger's Messages returned
\* testMessages; and when a logger's Messages returned something else, the
\* status is 1 and cerr holds the expected and the observed sequence.
C3_HarnessOutcome ==
    (Ended /\ Opened) =>
        /\ (exitStatus = <<0>> /\ cerr = <<>>)
               <=> (\A k \in 1..2 : observed[k] = <<testMessages>>)
        /\ exitStatus \in {<<0>>, <<1>>}
        /\ \A k \in 1..2 :
               (observed[k] # <<>> /\ observed[k] # <<testMessages>>)
                   => /\ exitStatus = <<1>>
                      /\ cerr = MismatchReport(testMessages, observed[k][1])
        /\ exitStatus = <<1>>
               => \E k \in DOMAIN loggers : ReadOf(k) # testMessages

\* C3's case: main ended on a mismatch of the LocalLogger's messages.
C3_Witness ==
    /\ pc = "exited"
    /\ Opened
    /\ observed[1] = <<testMessages>>
    /\ observed[2] = << <<>> >>
    /\ exitStatus = <<1>>

\* C4 as stated: whenever main has ended after the LocalLogger was
\* constructed, the logger's destruction closed its write handle exactly once.
C4_ReleasedOnEveryExit ==
    (Ended /\ Opened) => closeCount[Filename(argv)] = 1

\* C5: a call of Messages that follows another on the same logger with no
\* Log on it in between returns what that one returned.
C5_IdempotentRead ==
    \A k \in DOMAIN loggers :
        prevObserved[k] # <<>> => observed[k] = prevObserved[k]

\* C5's case: a LocalLogger and an InMemoryLogger, each holding messages
\* and each read twice in a row.
C5_Witness ==
    \E k \in DOMAIN loggers : \E h \in DOMAIN loggers :
        /\ IsLocal(k) /\ IsMemory(h)
        /\ appended[k] # <<>> /\ appended[h] # <<>>
        /\ prevObserved[k] # <<>> /\ prevObserved[h] # <<>>

\* C6: a call of Log or Messages on one logger leaves every other logger
\* as it was, and what Messages returns on it the same.
C6_Independence ==
    [][\A t \in DOMAIN loggers :
          (lastOp'.op \in {"Log", "Messages"} /\ lastOp'.k # t)
              => /\ loggers'[t] = loggers[t]
                 /\ Messages(loggers'[t], fs').ret = ReadOf(t)]_vars

\* C6's case: a Log on the second LocalLogger while the first LocalLogger
\* holds a message and the InMemoryLogger exists.
C6_Witness ==
    /\ lastOp = [op |-> "Log", k |-> 3]
    /\ IsMemory(1) /\ IsLocal(2) /\ IsLocal(3)
    /\ appended[2] # <<>>
    /\ appended[3] # <<>>

\* C7 as stated: every call of Messages on a LocalLogger returns exactly
\* the messages logged to it so far, in order.
C7_ReadSeesAllAppends ==
    \A k \in DOMAIN loggers :
        (IsLocal(k) /\ JustRead(k)) => ReadOf(k) = appended[k]

\* C7 as amended: for a LocalLogger on a regular file, in any interleaving
\* of Log and Messages, the file always holds every message logged so far
\* followed by its line terminator, in order, with the write position at
\* its end and nothing buffered; a call of Messages changes neither the
\* file system nor any logger; and it returns exactly the messages logged
\* so far when none of them holds the line terminator.
C7_WriteThrough ==
    /\ [](\A k \in DOMAIN loggers :
            IsLocal(k) =>
                /\ fs[loggers[k].filename].data = EmitVector(appended[k])
                /\ loggers[k].pos = Len(fs[loggers[k].filename].data)
                /\ loggers[k].buf = <<>>
                /\ (JustRead(k) /\ NoNLIn(appended[k]))
                       => observed[k] = <<appended[k]>>)
    /\ [][lastOp'.op = "Messages" => (fs' = fs /\ loggers' = loggers)]_vars

\* C7's case: Log, Messages, Log, Messages on one LocalLogger.
C7_Witness ==
    \E k \in DOMAIN loggers :
        /\ IsLocal(k)
        /\ JustRead(k)
        /\ Len(appended[k]) = 2
        /\ NoNLIn(appended[k])
        /\ prevObserved[k] = <<>>
        /\ observed[k] = <<appended[k]>>
        /\ Len(fs[loggers[k].filename].data) > Len(appended[k][2]) + 1

\* C8: Messages on a logger nothing was logged to returns the empty
\* sequence, whatever the file of a LocalLogger held before construction.
C8_EmptyAtConstruction ==
    \A k \in DOMAIN loggers :
        appended[k] = <<>>
            => /\ ReadOf(k) = <<>>
               /\ observed[k] \in {<<>>, << <<>> >>}

\* C8's case: Messages was just called on a LocalLogger nothing was logged
\* to, whose file held data before the construction.
C8_Witness ==
    \E k \in DOMAIN loggers :
        /\ IsLocal(k)
        /\ loggers[k].filename \in truncated
        /\ appended[k] = <<>>
        /\ JustRead(k)
        /\ observed[k] = << <<>> >>

\* C9: main logs message by message: each logger holds a prefix of
\* testMessages, an earlier logger of the collection is at most one message
\* ahead of a later one and never behind it, nothing is logged before both
\* loggers exist, and Messages is called only once every logger holds all
\* of testMessages.
C9_AppendOrder ==
    /\ \A k \in DOMAIN appended : IsPrefix(appended[k], testMessages)
    /\ \A k \in DOMAIN appended : appended[k] # <<>> => Opened
    /\ \A k \in DOMAIN appended : \A h \in DOMAIN appended :
           k < h => /\ Len(appended[h]) <= Len(appended[k])
                    /\ Len(appended[k]) <= Len(appended[h]) + 1
    /\ (\E k \in DOMAIN observed : observed[k] # <<>>)
           => (Opened /\ \A k \in DOMAIN appended : appended[k] = testMessages)

\* C9's case: the second message went to the first logger and not yet to
\* the second.
C9_Witness ==
    /\ Opened
    /\ Len(appended[1]) = 2
    /\ Len(appended[2]) = 1

\* C10: when a message logged to a LocalLogger on a regular file holds the
\* line terminator, Messages returns more messages than were logged.
C10_TerminatorSplits ==
    \A k \in DOMAIN loggers :
        (IsLocal(k) /\ ~NoNLIn(appended[k]))
            => /\ Len(ReadOf(k)) > Len(appended[k])
               /\ JustRead(k) => Len(observed[k][1]) > Len(appended[k])

\* C10's case: the one message a, NL, b was logged and is read back as the
\* two messages a and b.
C10_Witness ==
    \E k \in DOMAIN loggers :
        /\ IsLocal(k)
        /\ JustRead(k)
        /\ appended[k] = << <<"a", NL, "b">> >>
        /\ observed[k] = << << <<"a">>, <<"b">> >> >>

====
